---- MODULE Spec2Model ----
(***************************************************************************)
(* Stroke prediction service (src/enhanced_app.py): the /predict handler,  *)
(* the risk factor analyzer, the SQLite record store written by            *)
(* save_prediction_to_db and the aggregation queries of /dashboard-data.   *)
(*                                                                         *)
(* Numbers.  Probabilities are integers in percent (p = 37 is 0.37),       *)
(* contributions are integers in hundredths (15 is 0.15), ages and glucose *)
(* are integers in their own unit, BMI is in tenths of kg/m2 (185 is       *)
(* 18.5), risk_percentage is kept in hundredths of a percent (3333 is      *)
(* 33.33), the precision round(x, 2) leaves, and the prevalences are kept  *)
(* in tenths of a percent (333 is 33.3), the precision ROUND(x, 1) leaves. *)
(*                                                                         *)
(* Optional values.  Python's None is the empty sequence, a present value  *)
(* v is <<v>>.  A JSON body or a dict is a function whose DOMAIN is the    *)
(* set of its keys.  The fields age, avg_glucose_level and bmi of a        *)
(* request are optional values, JSON null being None.                      *)
(*                                                                         *)
(* Rows.  A predictions row keeps the columns the aggregation queries and  *)
(* the properties read; timestamp, ever_married, work_type, residence_type *)
(* and notes are stored verbatim by the code and are left out.  The field  *)
(* `request` of a row is history: the request that inserted it.            *)
(*                                                                         *)
(* Specifications.  Spec is the service with concurrent requests on an     *)
(* initially empty store, SpecAnalyzer runs one /predict request over      *)
(* every analyzer input, SpecValidation serves requests with fields left   *)
(* out or null, SpecTier serves requests with probabilities around the     *)
(* High tier next to a /dashboard-data request, SpecStartup is the process *)
(* from the import of the module on, and SpecDashboard, SpecDashboardAge   *)
(* and SpecDashboardBody run /dashboard-data over every store of up to     *)
(* MaxStoreRows rows of a family.  The query predictions_by_date reads     *)
(* the timestamp column only and is left out with it.                      *)
(***************************************************************************)
EXTENDS Integers, Sequences, FiniteSets, TLC

VARIABLES
    predictions,      \* committed rows of table predictions, in rowid order
    risk_factors,     \* committed rows of table risk_factors, in rowid order
    sqlite_sequence,  \* AUTOINCREMENT counter of table predictions
    lock,             \* connection holding SQLite's write (RESERVED) lock
    pc,               \* position of each /predict request thread
    data,             \* request.json of each /predict request
    result,           \* the handler's local `result`
    conn,             \* the uncommitted transaction of each thread's connection
    saved,            \* return value of save_prediction_to_db
    response,         \* (body, status) returned by /predict
    saveCalls,        \* history: calls of save_prediction_to_db made by each request
    rolledBack,       \* history: what the transaction of a failed save held
    dpc,              \* position of the /dashboard-data request thread
    dash,             \* locals of get_dashboard_data computed so far
    dresponse,        \* (body, status) returned by /dashboard-data
    boot,             \* position of the process in the module's top-level code
    model,            \* the module global `model`
    artifact          \* the file model.pkl

vars == <<predictions, risk_factors, sqlite_sequence, lock, pc, data, result,
          conn, saved, response, saveCalls, rolledBack, dpc, dash, dresponse,
          boot, model, artifact>>

storeVars == <<predictions, risk_factors, sqlite_sequence, lock>>
predictVars == <<pc, data, result, conn, saved, response, saveCalls,
                 rolledBack>>
dashVars == <<dpc, dash, dresponse>>
bootVars == <<boot, model, artifact>>

-----------------------------------------------------------------------------
(* Bounds of the model *)

\* /predict requests received in one behaviour; the threaded server runs each
\* in a thread of its own
MaxRequests == 2

\* rows of an arbitrary store handed to the aggregation queries
MaxStoreRows == 3

Workers == 1 .. MaxRequests

None == <<>>
Some(v) == <<v>>

Min(a, b) == IF a < b THEN a ELSE b
Max(a, b) == IF a > b THEN a ELSE b

-----------------------------------------------------------------------------
(* Risk factor analyzer *)

\* age_category with the upper cut point included
age_category_inclusive(age) ==
    IF age >= 65 THEN "High" ELSE IF age > 50 THEN "Medium" ELSE "Low"

\* Age factor, lines 190-199
age_risk(age) == IF age > 50 THEN Max(0, (age - 50) * 2) ELSE 0

\* The risk_category of the Age factor, line 198
age_category(age) ==
    IF age > 65 THEN "High" ELSE IF age > 50 THEN "Medium" ELSE "Low"

\* bmi_risk with the upper cut point included
bmi_risk_inclusive(bmi) == IF bmi >= 300 THEN 15 ELSE IF bmi > 250 THEN 8 ELSE 0

\* BMI factor, lines 201-214
bmi_risk(bmi) == IF bmi > 300 THEN 15 ELSE IF bmi > 250 THEN 8 ELSE 0

bmi_category(bmi) ==
    IF bmi > 300 THEN "High" ELSE IF bmi > 250 THEN "Medium" ELSE "Normal"

\* Glucose factor, lines 216-229
glucose_risk(glucose) ==
    IF glucose > 140 THEN 20 ELSE IF glucose > 100 THEN 10 ELSE 0

glucose_category(glucose) ==
    IF glucose > 140 THEN "High" ELSE IF glucose > 100 THEN "Medium" ELSE "Normal"

\* Hypertension factor, lines 231-240
hypertension_risk(hypertension) == IF hypertension = 1 THEN 25 ELSE 0

\* Heart disease factor, lines 242-251
heart_risk(heart_disease) == IF heart_disease = 1 THEN 30 ELSE 0

binary_category(flag) == IF flag = 1 THEN "High" ELSE "Low"

\* Smoking factor, lines 253-262
smoking_risk(smoking) ==
    IF smoking = "smokes" THEN 15
    ELSE IF smoking = "formerly smoked" THEN 10 ELSE 0

smoking_category(smoking) ==
    IF smoking = "smokes" THEN "High"
    ELSE IF smoking = "formerly smoked" THEN "Medium" ELSE "Low"

\* data.get(key, default)
Get(d, key, default) == IF key \in DOMAIN d THEN d[key] ELSE default

\* float(x) of a JSON number or null, the fields age, bmi and
\* avg_glucose_level of a request being optional values: the number, and a
\* TypeError for None
float(x) == x[1]

float_raises(x) == x = None

\* Lines 191, 202, 217: a field that is there with the value null
calculate_risk_factors_raises(d) ==
    \E key \in {"age", "bmi", "avg_glucose_level"} :
        key \in DOMAIN d /\ float_raises(d[key])

Factor(name, value, contribution, unit, category) ==
    [name |-> name, value |-> value, contribution |-> contribution,
     unit |-> unit, risk_category |-> category]

calculate_risk_factors(d) ==
    LET age == float(Get(d, "age", Some(0)))
        bmi == float(Get(d, "bmi", Some(0)))
        glucose == float(Get(d, "avg_glucose_level", Some(0)))
        hypertension == Get(d, "hypertension", 0)
        heart_disease == Get(d, "heart_disease", 0)
        smoking == Get(d, "smoking_status", "never smoked")
    IN  << Factor("Age", age, age_risk(age), "years", age_category(age)),
           Factor("BMI", bmi, bmi_risk(bmi), "kg/m2", bmi_category(bmi)),
           Factor("Glucose Level", glucose, glucose_risk(glucose), "mg/dL",
                  glucose_category(glucose)),
           Factor("Hypertension", hypertension, hypertension_risk(hypertension),
                  "Yes/No", binary_category(hypertension)),
           Factor("Heart Disease", heart_disease, heart_risk(heart_disease),
                  "Yes/No", binary_category(heart_disease)),
           Factor("Smoking Status", smoking, smoking_risk(smoking), "Category",
                  smoking_category(smoking)) >>

\* risk_level with the first threshold included in the lower tier
risk_level_inclusive(stroke_prob) ==
    IF stroke_prob <= 20 THEN "Very Low"
    ELSE IF stroke_prob < 40 THEN "Low"
    ELSE IF stroke_prob < 60 THEN "Medium"
    ELSE IF stroke_prob < 80 THEN "High"
    ELSE "Very High"

\* risk_level with High starting at 0.5
risk_level_high_from_half(stroke_prob) ==
    IF stroke_prob < 20 THEN "Very Low"
    ELSE IF stroke_prob < 40 THEN "Low"
    ELSE IF stroke_prob < 50 THEN "Medium"
    ELSE IF stroke_prob < 80 THEN "High"
    ELSE "Very High"

\* Risk level of a stroke probability, lines 1136-1147
risk_level(stroke_prob) ==
    IF stroke_prob < 20 THEN "Very Low"
    ELSE IF stroke_prob < 40 THEN "Low"
    ELSE IF stroke_prob < 60 THEN "Medium"
    ELSE IF stroke_prob < 80 THEN "High"
    ELSE "Very High"

get_interpretation(stroke_prob, factors) ==
    IF stroke_prob < 20 THEN "Low stroke risk. Maintain healthy lifestyle."
    ELSE IF stroke_prob < 40 THEN "Moderate risk. Monitor risk factors regularly."
    ELSE IF stroke_prob < 60
         THEN "Elevated risk. Consider lifestyle changes and regular checkups."
    ELSE IF stroke_prob < 80
         THEN "High risk. Consult healthcare provider for preventive measures."
    ELSE "Very high risk. Immediate medical consultation recommended."

\* factor_recommendation with the contribution compared by >= 0.1
factor_recommendation_from_tenth(factor) ==
    IF factor.contribution >= 10
    THEN IF factor.name = "BMI" /\ factor.value > 250
         THEN <<"Weight management program">>
         ELSE IF factor.name = "Glucose Level" /\ factor.value > 100
         THEN <<"Diabetes screening and management">>
         ELSE IF factor.name = "Smoking Status"
                 /\ factor.value \in {"smokes", "formerly smoked"}
         THEN <<"Smoking cessation support">>
         ELSE <<>>
    ELSE <<>>

\* The recommendation one factor adds, lines 1201-1208
factor_recommendation(factor) ==
    IF factor.contribution > 10
    THEN IF factor.name = "BMI" /\ factor.value > 250
         THEN <<"Weight management program">>
         ELSE IF factor.name = "Glucose Level" /\ factor.value > 100
         THEN <<"Diabetes screening and management">>
         ELSE IF factor.name = "Smoking Status"
                 /\ factor.value \in {"smokes", "formerly smoked"}
         THEN <<"Smoking cessation support">>
         ELSE <<>>
    ELSE <<>>

RECURSIVE factor_recommendations(_)
factor_recommendations(factors) ==
    IF factors = <<>> THEN <<>>
    ELSE factor_recommendation(Head(factors)) \o factor_recommendations(Tail(factors))

\* recommendations[:5]
top5(recommendations) == SubSeq(recommendations, 1, Min(5, Len(recommendations)))

fallback_recommendations ==
    <<"Maintain current healthy lifestyle", "Regular exercise and balanced diet">>

\* or_fallback without the fallback
no_fallback(recommendations) == recommendations

\* Lines 1210-1212
or_fallback(recommendations) ==
    IF recommendations = <<>> THEN fallback_recommendations ELSE recommendations

get_recommendations(stroke_prob, factors) ==
    LET general == IF stroke_prob > 40
                   THEN <<"Regular blood pressure monitoring",
                          "Annual health checkups">>
                   ELSE <<>>
    IN  top5(or_fallback(general \o factor_recommendations(factors)))

-----------------------------------------------------------------------------
(* Start of the process: the module's top-level code, lines 117-122, and      *)
(* app.run, line 1235.  The routes are served by app.run only.                *)

\* Lines 117-119: joblib.load('model.pkl') returns the pipeline
LoadModel ==
    /\ boot = "import"
    /\ artifact = "present"
    /\ model' = Some("loaded")
    /\ boot' = "main"
    /\ UNCHANGED <<storeVars, predictVars, dashVars, artifact>>

\* The except branch starting the server at once, the training left for later
LoadFailsLazy ==
    /\ boot = "import"
    /\ boot' = "main"
    /\ UNCHANGED <<storeVars, predictVars, dashVars, model, artifact>>

\* Lines 120-122: joblib.load raises, the file being absent or unreadable; the
\* bare except calls create_model()
LoadFails ==
    /\ boot = "import"
    /\ boot' = "fit"
    /\ UNCHANGED <<storeVars, predictVars, dashVars, model, artifact>>

\* Lines 81-112: read_csv and pipeline.fit
Fit ==
    /\ boot = "fit"
    /\ boot' = "dump"
    /\ UNCHANGED <<storeVars, predictVars, dashVars, model, artifact>>

\* Line 113: joblib.dump(pipeline, 'model.pkl')
Dump ==
    /\ boot = "dump"
    /\ artifact' = "present"
    /\ boot' = "return"
    /\ UNCHANGED <<storeVars, predictVars, dashVars, model>>

\* Lines 115 and 122: model = create_model()
AssignModel ==
    /\ boot = "return"
    /\ model' = Some("trained")
    /\ boot' = "main"
    /\ UNCHANGED <<storeVars, predictVars, dashVars, artifact>>

\* create_model raises (no dataset, the fit or the dump fails): the exception
\* leaves the module and the process ends
CreateModelFails ==
    /\ boot \in {"fit", "dump"}
    /\ boot' = "exit"
    /\ UNCHANGED <<storeVars, predictVars, dashVars, model, artifact>>

\* Line 1235: app.run
AppRun ==
    /\ boot = "main"
    /\ boot' = "serving"
    /\ UNCHANGED <<storeVars, predictVars, dashVars, model, artifact>>

-----------------------------------------------------------------------------
(* /predict, lines 1125-1177 *)

\* data.get(key): None when the key is absent
Opt(d, key) == IF key \in DOMAIN d THEN Some(d[key]) ELSE None

\* `if x:` on an optional integer
Truthy(x) == x # None /\ x[1] # 0

\* model.predict(df)[0] for the probability the pipeline returns
model_predict(stroke_prob) == IF stroke_prob > 50 THEN 1 ELSE 0

\* The dict `result` built at lines 1137-1160
build_result(d, stroke_prob) ==
    LET factors == calculate_risk_factors(d)
    IN  [prediction |-> model_predict(stroke_prob),
         probability |-> [no_stroke |-> 100 - stroke_prob, stroke |-> stroke_prob],
         risk_level |-> risk_level(stroke_prob),
         confidence |-> Max(stroke_prob, 100 - stroke_prob),
         risk_factors |-> factors,
         interpretation |-> get_interpretation(stroke_prob, factors),
         recommendations |-> get_recommendations(stroke_prob, factors)]

NoConn == [predictions |-> <<>>, risk_factors |-> <<>>, lastrowid |-> 0]

\* Lines 1128-1162: the request is read, the model is asked, the result is built
Predict(w, d, stroke_prob) ==
    /\ boot = "serving"
    /\ pc[w] = "idle"
    /\ model # None
    /\ ~calculate_risk_factors_raises(d)
    /\ data' = [data EXCEPT ![w] = d]
    /\ result' = [result EXCEPT ![w] = build_result(d, stroke_prob)]
    /\ pc' = [pc EXCEPT ![w] = "save"]
    /\ UNCHANGED <<storeVars, conn, saved, response, saveCalls, rolledBack,
                   dashVars, bootVars>>

\* PredictError with no except branch: the exception ends the process
PredictErrorUncaught(w, d) ==
    /\ boot = "serving"
    /\ pc[w] = "idle"
    /\ data' = [data EXCEPT ![w] = d]
    /\ boot' = "exit"
    /\ pc' = [pc EXCEPT ![w] = "done"]
    /\ UNCHANGED <<storeVars, result, conn, saved, response, saveCalls, rolledBack,
                   dashVars, model, artifact>>

\* Lines 1175-1177: an exception before the save (the pipeline rejects the record)
PredictError(w, d) ==
    /\ boot = "serving"
    /\ pc[w] = "idle"
    /\ data' = [data EXCEPT ![w] = d]
    /\ response' = [response EXCEPT ![w] =
                        [status |-> 500, body |-> [error |-> "exception"]]]
    /\ pc' = [pc EXCEPT ![w] = "done"]
    /\ UNCHANGED <<storeVars, result, conn, saved, saveCalls, rolledBack,
                   dashVars, bootVars>>

\* str(e) of the TypeError float(None) raises
TypeErrorMessage == "float() argument must be a string or a real number, not 'NoneType'"

\* Lines 1150 and 1175-1177: the pipeline has returned and
\* calculate_risk_factors raises
PredictTypeError(w, d) ==
    /\ boot = "serving"
    /\ pc[w] = "idle"
    /\ model # None
    /\ calculate_risk_factors_raises(d)
    /\ data' = [data EXCEPT ![w] = d]
    /\ response' = [response EXCEPT ![w] =
                        [status |-> 500, body |-> [error |-> TypeErrorMessage]]]
    /\ pc' = [pc EXCEPT ![w] = "done"]
    /\ UNCHANGED <<storeVars, result, conn, saved, saveCalls, rolledBack,
                   dashVars, bootVars>>

\* respond answering a failed save with an error
respond_error_on_failed_save(res, ret) ==
    IF Truthy(ret[1])
    THEN [status |-> 200,
          body |-> res @@ [prediction_id |-> ret[1][1], patient_id |-> ret[2][1],
                           saved_to_database |-> TRUE]]
    ELSE [status |-> 500, body |-> [error |-> "not saved"]]

\* Lines 1165-1173: what /predict returns for the result `res` once
\* save_prediction_to_db has returned `ret`; the ids are added when ret has one
respond(res, ret) ==
    [status |-> 200,
     body |-> IF Truthy(ret[1])
              THEN res @@ [prediction_id |-> ret[1][1], patient_id |-> ret[2][1],
                           saved_to_database |-> TRUE]
              ELSE res]

-----------------------------------------------------------------------------
(* save_prediction_to_db, lines 128-184.  sqlite3 opens a transaction before  *)
(* the first INSERT of a connection; its rows are in the store only after     *)
(* conn.commit().  A connection that is dropped without commit (the function  *)
(* returns from its except branch and `conn` is released) rolls back.  What   *)
(* the handler does after the last statement of the save touches its own      *)
(* locals only, and belongs to the step of that statement.                    *)

RECURSIVE MaxId(_)
MaxId(rows) ==
    IF rows = <<>> THEN 0 ELSE Max(rows[Len(rows)].id, MaxId(SubSeq(rows, 1, Len(rows) - 1)))

\* The rowid an AUTOINCREMENT column gives the next row
NextRowId == Max(sqlite_sequence, MaxId(predictions)) + 1

\* The parameters of the INSERT at lines 138-164.  `request` is history: the
\* request that wrote the row.
prediction_row(w, id) ==
    [id |-> id,
     patient_id |-> Get(data[w], "patient_id", "PATIENT_now"),
     gender |-> Opt(data[w], "gender"),
     age |-> Get(data[w], "age", None),
     hypertension |-> Opt(data[w], "hypertension"),
     heart_disease |-> Opt(data[w], "heart_disease"),
     avg_glucose_level |-> Get(data[w], "avg_glucose_level", None),
     bmi |-> Get(data[w], "bmi", None),
     smoking_status |-> Opt(data[w], "smoking_status"),
     prediction |-> result[w].prediction,
     stroke_probability |-> result[w].probability.stroke,
     no_stroke_probability |-> result[w].probability.no_stroke,
     risk_level |-> result[w].risk_level,
     confidence |-> result[w].confidence,
     request |-> w]

\* The parameters of the INSERT at lines 171-174, and the history field
risk_factor_row(w, prediction_id, factor) ==
    [prediction_id |-> prediction_id, factor_name |-> factor.name,
     factor_value |-> factor.value, contribution |-> factor.contribution,
     request |-> w]

\* InsertPrediction not waiting for the write lock
InsertPredictionUnlocked(w) ==
    /\ pc[w] = "save"
    /\ lock' = Some(w)
    /\ conn' = [conn EXCEPT ![w] =
                    [predictions |-> <<prediction_row(w, NextRowId)>>,
                     risk_factors |-> <<>>,
                     lastrowid |-> NextRowId]]
    /\ saveCalls' = [saveCalls EXCEPT ![w] = @ + 1]
    /\ pc' = [pc EXCEPT ![w] = "factors"]
    /\ UNCHANGED <<predictions, risk_factors, sqlite_sequence, data, result,
                   saved, response, rolledBack, dashVars, bootVars>>

\* Lines 131-166: connect, INSERT INTO predictions inside a new transaction.
\* The statement waits while another connection holds the write lock.
InsertPrediction(w) ==
    /\ pc[w] = "save"
    /\ lock = None
    /\ lock' = Some(w)
    /\ conn' = [conn EXCEPT ![w] =
                    [predictions |-> <<prediction_row(w, NextRowId)>>,
                     risk_factors |-> <<>>,
                     lastrowid |-> NextRowId]]
    /\ saveCalls' = [saveCalls EXCEPT ![w] = @ + 1]
    /\ pc' = [pc EXCEPT ![w] = "factors"]
    /\ UNCHANGED <<predictions, risk_factors, sqlite_sequence, data, result,
                   saved, response, rolledBack, dashVars, bootVars>>

\* InsertFactor on a connection in autocommit mode: the row is in the store at once
InsertFactorAutocommit(w) ==
    /\ pc[w] = "factors"
    /\ Len(conn[w].risk_factors) < Len(result[w].risk_factors)
    /\ LET factor == result[w].risk_factors[Len(conn[w].risk_factors) + 1]
           row == risk_factor_row(w, conn[w].lastrowid, factor)
       IN  /\ conn' = [conn EXCEPT ![w].risk_factors = Append(@, row)]
           /\ risk_factors' = Append(risk_factors, row)
    /\ UNCHANGED <<predictions, sqlite_sequence, lock, pc, data, result, saved,
                   response, saveCalls, rolledBack, dashVars, bootVars>>

\* Lines 169-174: one pass of the loop, INSERT INTO risk_factors
InsertFactor(w) ==
    /\ pc[w] = "factors"
    /\ Len(conn[w].risk_factors) < Len(result[w].risk_factors)
    /\ LET factor == result[w].risk_factors[Len(conn[w].risk_factors) + 1]
       IN  conn' = [conn EXCEPT ![w].risk_factors =
                       Append(@, risk_factor_row(w, conn[w].lastrowid, factor))]
    /\ UNCHANGED <<storeVars, pc, data, result, saved, response, saveCalls,
                   rolledBack, dashVars, bootVars>>

\* Commit as an upsert on patient_id: a row of the same patient is overwritten
CommitUpsert(w) ==
    /\ pc[w] = "factors"
    /\ Len(conn[w].risk_factors) = Len(result[w].risk_factors)
    /\ LET new == conn[w].predictions[1]
           same == {i \in 1 .. Len(predictions) :
                       predictions[i].patient_id = new.patient_id}
       IN  predictions' = IF same = {} THEN Append(predictions, new)
                          ELSE [i \in 1 .. Len(predictions) |->
                                   IF i \in same THEN new ELSE predictions[i]]
    /\ risk_factors' = risk_factors \o conn[w].risk_factors
    /\ sqlite_sequence' = conn[w].lastrowid
    /\ lock' = None
    /\ LET ret == <<Some(conn[w].lastrowid), Some(conn[w].predictions[1].patient_id)>>
       IN  /\ saved' = [saved EXCEPT ![w] = ret]
           /\ response' = [response EXCEPT ![w] = respond(result[w], ret)]
    /\ conn' = [conn EXCEPT ![w] = NoConn]
    /\ pc' = [pc EXCEPT ![w] = "done"]
    /\ UNCHANGED <<data, result, saveCalls, rolledBack, dashVars, bootVars>>

\* Commit followed by an exception in the handler: the rows are in the store
\* and the request is answered with the error
CommitThenError(w) ==
    /\ pc[w] = "factors"
    /\ Len(conn[w].risk_factors) = Len(result[w].risk_factors)
    /\ predictions' = predictions \o conn[w].predictions
    /\ risk_factors' = risk_factors \o conn[w].risk_factors
    /\ sqlite_sequence' = conn[w].lastrowid
    /\ lock' = None
    /\ saved' = [saved EXCEPT ![w] =
                    <<Some(conn[w].lastrowid), Some(conn[w].predictions[1].patient_id)>>]
    /\ response' = [response EXCEPT ![w] =
                        [status |-> 500, body |-> [error |-> "exception"]]]
    /\ conn' = [conn EXCEPT ![w] = NoConn]
    /\ pc' = [pc EXCEPT ![w] = "done"]
    /\ UNCHANGED <<data, result, saveCalls, rolledBack, dashVars, bootVars>>

\* Lines 176-180: conn.commit() publishes the transaction as one unit and the
\* ids are returned; lines 1167-1173: the response
Commit(w) ==
    /\ pc[w] = "factors"
    /\ Len(conn[w].risk_factors) = Len(result[w].risk_factors)
    /\ predictions' = predictions \o conn[w].predictions
    /\ risk_factors' = risk_factors \o conn[w].risk_factors
    /\ sqlite_sequence' = conn[w].lastrowid
    /\ lock' = None
    /\ LET ret == <<Some(conn[w].lastrowid), Some(conn[w].predictions[1].patient_id)>>
       IN  /\ saved' = [saved EXCEPT ![w] = ret]
           /\ response' = [response EXCEPT ![w] = respond(result[w], ret)]
    /\ conn' = [conn EXCEPT ![w] = NoConn]
    /\ pc' = [pc EXCEPT ![w] = "done"]
    /\ UNCHANGED <<data, result, saveCalls, rolledBack, dashVars, bootVars>>

\* SaveError with a commit on the way out of the except branch
SaveErrorCommits(w) ==
    /\ pc[w] \in {"save", "factors"}
    /\ predictions' = predictions \o conn[w].predictions
    /\ risk_factors' = risk_factors \o conn[w].risk_factors
    /\ sqlite_sequence' = Max(sqlite_sequence, conn[w].lastrowid)
    /\ lock' = IF lock = Some(w) THEN None ELSE lock
    /\ conn' = [conn EXCEPT ![w] = NoConn]
    /\ saved' = [saved EXCEPT ![w] = <<None, None>>]
    /\ response' = [response EXCEPT ![w] = respond(result[w], <<None, None>>)]
    /\ saveCalls' = [saveCalls EXCEPT ![w] = IF pc[w] = "save" THEN @ + 1 ELSE @]
    /\ rolledBack' = [rolledBack EXCEPT ![w] =
                          IF conn[w].risk_factors # <<>> THEN "prediction and factors"
                          ELSE IF conn[w].predictions # <<>> THEN "prediction"
                          ELSE "nothing"]
    /\ pc' = [pc EXCEPT ![w] = "done"]
    /\ UNCHANGED <<data, result, dashVars, bootVars>>

\* Lines 182-184: any exception inside the try (connect, an INSERT, the wait for
\* the lock timing out, commit) returns (None, None) and the transaction is
\* dropped; lines 1167-1173: the response
SaveError(w) ==
    /\ pc[w] \in {"save", "factors"}
    /\ lock' = IF lock = Some(w) THEN None ELSE lock
    /\ conn' = [conn EXCEPT ![w] = NoConn]
    /\ saved' = [saved EXCEPT ![w] = <<None, None>>]
    /\ response' = [response EXCEPT ![w] = respond(result[w], <<None, None>>)]
    /\ saveCalls' = [saveCalls EXCEPT ![w] = IF pc[w] = "save" THEN @ + 1 ELSE @]
    /\ rolledBack' = [rolledBack EXCEPT ![w] =
                          IF conn[w].risk_factors # <<>> THEN "prediction and factors"
                          ELSE IF conn[w].predictions # <<>> THEN "prediction"
                          ELSE "nothing"]
    /\ pc' = [pc EXCEPT ![w] = "done"]
    /\ UNCHANGED <<predictions, risk_factors, sqlite_sequence, data, result,
                   dashVars, bootVars>>

-----------------------------------------------------------------------------
(* /dashboard-data, lines 914-1117.  Every cursor.execute is a read of its    *)
(* own: it sees the rows committed at that moment.                            *)

\* dict(SELECT col, COUNT(*) FROM rows GROUP BY col)
GroupCount(rows, col) ==
    [k \in {rows[i][col] : i \in 1 .. Len(rows)} |->
        Cardinality({i \in 1 .. Len(rows) : rows[i][col] = k})]

IsHighLabel(r) == r.risk_level \in {"High", "Very High"}

\* IsHighRisk without the probability condition
IsHighRiskByLabel(r) == r.risk_level \in {"High", "Very High"}

\* WHERE of the query at lines 934-938
IsHighRisk(r) == IsHighLabel(r) /\ r.stroke_probability > 50

\* round(n / d, 0) as Python rounds: to nearest, ties to even
RoundHalfEven(n, d) ==
    LET q == n \div d
        r == n % d
    IN  IF 2 * r < d THEN q
        ELSE IF 2 * r > d THEN q + 1
        ELSE IF q % 2 = 0 THEN q ELSE q + 1

\* risk_percentage cut to two decimals instead of rounded
risk_percentage_truncated(high_risk_gender, total_gender) ==
    IF total_gender # 0 /\ total_gender > 0
    THEN (high_risk_gender * 10000) \div total_gender
    ELSE 0

\* Lines 1022-1028 and round(risk_percentage, 2), in hundredths of a percent
risk_percentage(high_risk_gender, total_gender) ==
    IF total_gender # 0 /\ total_gender > 0
    THEN IF high_risk_gender # 0
         THEN RoundHalfEven(high_risk_gender * 10000, total_gender)
         ELSE 0
    ELSE 0

\* One pass of the loop at lines 1004-1034
gender_risk_entry(rows, gender) ==
    LET of_gender == {i \in 1 .. Len(rows) : rows[i].gender = Some(gender)}
        total_gender == Cardinality(of_gender)
        high_risk_gender == Cardinality({i \in of_gender : IsHighLabel(rows[i])})
    IN  [total |-> total_gender,
         high_risk |-> high_risk_gender,
         risk_percentage |-> risk_percentage(high_risk_gender, total_gender)]

RiskGenders == <<"Male", "Female">>

\* The CASE of lines 953-958 and 976-981; a NULL age satisfies no WHEN
age_group_inclusive(age) ==
    IF age # None /\ age[1] <= 30 THEN "Under 30"
    ELSE IF age # None /\ age[1] <= 50 THEN "30-49"
    ELSE IF age # None /\ age[1] <= 65 THEN "50-64"
    ELSE "65+"

\* age_group with the 65+ bucket starting above 65
age_group_above_65(age) ==
    IF age # None /\ age[1] < 30 THEN "Under 30"
    ELSE IF age # None /\ age[1] < 50 THEN "30-49"
    ELSE IF age # None /\ age[1] <= 65 THEN "50-64"
    ELSE "65+"

age_group(age) ==
    IF age # None /\ age[1] < 30 THEN "Under 30"
    ELSE IF age # None /\ age[1] < 50 THEN "30-49"
    ELSE IF age # None /\ age[1] < 65 THEN "50-64"
    ELSE "65+"

\* The CASE of ORDER BY, lines 963-968 and 985-990
age_group_order(group) ==
    CASE group = "Under 30" -> 1
      [] group = "30-49" -> 2
      [] group = "50-64" -> 3
      [] OTHER -> 4

\* GROUP BY age_group ORDER BY the CASE above, over the rows with indices `of`,
\* as the list built at line 971
age_dist(rows, of) ==
    LET groups == {age_group(rows[i].age) : i \in of}
        place(g) == 1 + Cardinality({h \in groups :
                                        age_group_order(h) < age_group_order(g)})
        at(k) == CHOOSE g \in groups : place(g) = k
    IN  [k \in 1 .. Cardinality(groups) |->
            [age_group |-> at(k),
             count |-> Cardinality({i \in of : age_group(rows[i].age) = at(k)})]]

\* Lines 974-998: the rows of the query gathered by gender
gender_age_data(rows) ==
    [gender \in {rows[i].gender : i \in 1 .. Len(rows)} |->
        age_dist(rows, {i \in 1 .. Len(rows) : rows[i].gender = gender})]

\* SUM(CASE WHEN ... THEN 1 ELSE 0 END) over the rows `over`, `matching` being
\* those of the WHEN: NULL when there is no row
SqlSumCase(over, matching) ==
    IF over = {} THEN None ELSE Some(Cardinality(matching))

\* x without "or 0": NULL read as -1
or_null(x) == IF x # None THEN x[1] ELSE 0 - 1

\* Python's x or 0
or_zero(x) == IF Truthy(x) THEN x[1] ELSE 0

\* The BMI conditions with the upper ends included
bmi_cases_closed(bmi) ==
    <<bmi < 185, bmi >= 185 /\ bmi <= 250, bmi >= 250 /\ bmi <= 300, bmi >= 300>>

\* The four WHEN conditions of lines 1039-1042
bmi_cases(bmi) ==
    <<bmi < 185, bmi >= 185 /\ bmi < 250, bmi >= 250 /\ bmi < 300, bmi >= 300>>

\* Lines 1037-1053
bmi_stats_dict(rows) ==
    LET over == {i \in 1 .. Len(rows) : rows[i].bmi # None}
        bmi_stats == [k \in 1 .. 4 |->
                         SqlSumCase(over, {i \in over : bmi_cases(rows[i].bmi[1])[k]})]
    IN  [underweight |-> or_zero(bmi_stats[1]), normal |-> or_zero(bmi_stats[2]),
         overweight |-> or_zero(bmi_stats[3]), obese |-> or_zero(bmi_stats[4])]

\* The three WHEN conditions of lines 1058-1060
glucose_cases(glucose) ==
    <<glucose < 100, glucose >= 100 /\ glucose < 126, glucose >= 126>>

\* Lines 1055-1069
glucose_stats_dict(rows) ==
    LET over == {i \in 1 .. Len(rows) : rows[i].avg_glucose_level # None}
        glucose_stats ==
            [k \in 1 .. 3 |->
                SqlSumCase(over, {i \in over :
                                    glucose_cases(rows[i].avg_glucose_level[1])[k]})]
    IN  [normal |-> or_zero(glucose_stats[1]),
         prediabetes |-> or_zero(glucose_stats[2]),
         diabetes |-> or_zero(glucose_stats[3])]

\* round(n / d, 0) as SQLite's ROUND rounds: to nearest, ties away from zero
RoundHalfUp(n, d) == (2 * n + d) \div (2 * d)

\* ROUND(AVG(x) * 100, 1) in tenths of a percent, x being 1 on the rows
\* `matching` and 0 on the other rows of `over`: NULL when there is no row
SqlAvgPct(over, matching) ==
    IF over = {} THEN None
    ELSE Some(RoundHalfUp(1000 * Cardinality(matching), Cardinality(over)))

\* Lines 1071-1086; AVG skips the rows whose hypertension or heart_disease is
\* NULL, the two CASE columns are 0 or 1 on every row
risk_factors_dict(rows) ==
    LET all == 1 .. Len(rows)
        flagged(col) == {i \in all : rows[i][col] # None}
        prevalence ==
            <<SqlAvgPct(flagged("hypertension"),
                        {i \in flagged("hypertension") : rows[i].hypertension[1] = 1}),
              SqlAvgPct(flagged("heart_disease"),
                        {i \in flagged("heart_disease") : rows[i].heart_disease[1] = 1}),
              SqlAvgPct(all, {i \in all : rows[i].smoking_status
                                  \in {Some("smokes"), Some("formerly smoked")}}),
              SqlAvgPct(all, {i \in all : rows[i].age # None /\ rows[i].age[1] > 65})>>
    IN  ("Hypertension" :> or_zero(prevalence[1]))
        @@ ("Heart Disease" :> or_zero(prevalence[2]))
        @@ ("Smoking History" :> or_zero(prevalence[3]))
        @@ ("Age > 65" :> or_zero(prevalence[4]))

\* LIMIT of the query at lines 1089-1093
RecentLimit == 10

\* Lines 1088-1093: the newest rows first, timestamps growing with the rowid
recent_predictions(rows) ==
    [k \in 1 .. Min(RecentLimit, Len(rows)) |-> rows[Len(rows) + 1 - k]]

\* Lines 918-923
DashTotal ==
    /\ boot = "serving"
    /\ dpc = "idle"
    /\ dash' = [total |-> Len(predictions)]
    /\ dpc' = "gender_dist"
    /\ UNCHANGED <<storeVars, predictVars, bootVars, dresponse>>

\* Lines 925-927
DashGenderDist ==
    /\ dpc = "gender_dist"
    /\ dash' = dash @@ [gender_dist |-> GroupCount(predictions, "gender")]
    /\ dpc' = "risk_dist"
    /\ UNCHANGED <<storeVars, predictVars, bootVars, dresponse>>

\* Lines 929-931
DashRiskDist ==
    /\ dpc = "risk_dist"
    /\ dash' = dash @@ [risk_dist |-> GroupCount(predictions, "risk_level")]
    /\ dpc' = "high_risk"
    /\ UNCHANGED <<storeVars, predictVars, bootVars, dresponse>>

\* Lines 933-939
DashHighRisk ==
    /\ dpc = "high_risk"
    /\ dash' = dash @@ [high_risk |->
                            Cardinality({i \in 1 .. Len(predictions) :
                                            IsHighRisk(predictions[i])})]
    /\ dpc' = "age_dist"
    /\ UNCHANGED <<storeVars, predictVars, bootVars, dresponse>>

\* Lines 951-971
DashAgeDist ==
    /\ dpc = "age_dist"
    /\ dash' = dash @@ [age_dist |-> age_dist(predictions, 1 .. Len(predictions))]
    /\ dpc' = "gender_age"
    /\ UNCHANGED <<storeVars, predictVars, bootVars, dresponse>>

\* Lines 973-998 and gender_risk_stats = {} of line 1003
DashGenderAge ==
    /\ dpc = "gender_age"
    /\ dash' = dash @@ [gender_age_data |-> gender_age_data(predictions),
                        gender_risk_stats |-> <<>>]
    /\ dpc' = "gender_risk"
    /\ UNCHANGED <<storeVars, predictVars, bootVars, dresponse>>

\* Lines 1003-1034, one gender per step
DashGenderRisk ==
    /\ dpc = "gender_risk"
    /\ LET done == Cardinality(DOMAIN dash.gender_risk_stats)
           gender == RiskGenders[done + 1]
           entry == gender_risk_entry(predictions, gender)
       IN  /\ dash' = [dash EXCEPT !.gender_risk_stats = @ @@ (gender :> entry)]
           /\ dpc' = IF done + 1 = Len(RiskGenders) THEN "bmi_stats" ELSE "gender_risk"
    /\ UNCHANGED <<storeVars, predictVars, bootVars, dresponse>>

\* Lines 1036-1053
DashBmiStats ==
    /\ dpc = "bmi_stats"
    /\ dash' = dash @@ [bmi_stats |-> bmi_stats_dict(predictions)]
    /\ dpc' = "glucose_stats"
    /\ UNCHANGED <<storeVars, predictVars, bootVars, dresponse>>

\* Lines 1055-1069
DashGlucoseStats ==
    /\ dpc = "glucose_stats"
    /\ dash' = dash @@ [glucose_stats |-> glucose_stats_dict(predictions)]
    /\ dpc' = "risk_factors"
    /\ UNCHANGED <<storeVars, predictVars, bootVars, dresponse>>

\* Lines 1071-1086
DashRiskFactors ==
    /\ dpc = "risk_factors"
    /\ dash' = dash @@ [risk_factors |-> risk_factors_dict(predictions)]
    /\ dpc' = "recent"
    /\ UNCHANGED <<storeVars, predictVars, bootVars, dresponse>>

\* Lines 1088-1095
DashRecent ==
    /\ dpc = "recent"
    /\ dash' = dash @@ [recent_predictions |-> recent_predictions(predictions)]
    /\ dpc' = "respond"
    /\ UNCHANGED <<storeVars, predictVars, bootVars, dresponse>>

\* Lines 1097-1111
DashRespond ==
    /\ dpc = "respond"
    /\ dresponse' =
          [status |-> 200,
           body |-> [total_predictions |-> dash.total,
                     gender_distribution |-> dash.gender_dist,
                     risk_distribution |-> dash.risk_dist,
                     high_risk_patients |-> dash.high_risk,
                     age_distribution |-> dash.age_dist,
                     age_distribution_by_gender |-> dash.gender_age_data,
                     gender_risk_stats |-> dash.gender_risk_stats,
                     bmi_stats |-> dash.bmi_stats,
                     glucose_stats |-> dash.glucose_stats,
                     risk_factors |-> dash.risk_factors,
                     recent_predictions |-> dash.recent_predictions]]
    /\ dpc' = "done"
    /\ UNCHANGED <<storeVars, predictVars, bootVars, dash>>

\* Lines 1113-1117: an exception in any query; the locals are gone
DashError ==
    /\ boot = "serving"
    /\ dpc # "done"
    /\ dresponse' = [status |-> 500, body |-> [error |-> "exception"]]
    /\ dash' = <<>>
    /\ dpc' = "done"
    /\ UNCHANGED <<storeVars, predictVars, bootVars>>

-----------------------------------------------------------------------------
(* Inputs *)

\* request.json: the patient_id key, when given, and the fields of the record
PatientRecord(patient, gender, age, hyp, heart, glucose, bmi, smoking) ==
    patient @@ [gender |-> gender, age |-> Some(age), hypertension |-> hyp,
                heart_disease |-> heart, avg_glucose_level |-> Some(glucose),
                bmi |-> Some(bmi), smoking_status |-> smoking]

\* Requests of the serving specification, each with the probability the model
\* returns for it: one with a patient_id, one without
Requests ==
    { <<PatientRecord([patient_id |-> "P1"], "Male", 70, 1, 0, 150, 320, "smokes"), 70>>,
      <<PatientRecord(<<>>, "Female", 40, 0, 0, 90, 220, "never smoked"), 30>> }

\* Requests of the analyzer specification: every side of every threshold
Ages == {30, 50, 51, 65, 66, 70}
Bmis == {200, 250, 251, 300, 301, 320}
Glucoses == {90, 100, 101, 140, 150}
Flags == {0, 1}
SmokingStatuses == {"smokes", "formerly smoked", "never smoked", "Unknown"}
AnalyzerProbs == {0, 19, 20, 39, 40, 41, 59, 60, 79, 80, 100}

AnalyzerRecords ==
    { PatientRecord(<<>>, "Male", a, h, hd, g, b, s) :
        a \in Ages, h \in Flags, hd \in Flags, g \in Glucoses, b \in Bmis,
        s \in SmokingStatuses }

\* Requests of the validation specification: a complete record, and the
\* record with age, avg_glucose_level or bmi left out or null
Without(d, key) == [k \in DOMAIN d \ {key} |-> d[k]]
WithNull(d, key) == [d EXCEPT ![key] = None]

CompleteRecord == PatientRecord(<<>>, "Female", 40, 0, 0, 90, 220, "never smoked")

ValidationRequests ==
    {<<CompleteRecord, 30>>}
    \cup {<<Without(CompleteRecord, key), 30>> : key \in {"age", "avg_glucose_level", "bmi"}}
    \cup {<<WithNull(CompleteRecord, key), 30>> : key \in {"age", "avg_glucose_level", "bmi"}}

\* Requests of the age specification: the complete record with an age on both
\* sides of the cut point 65 and at it, and the record without the age key
AgeCutAges == {64, 65, 66}

AgeRequests ==
    {<<[CompleteRecord EXCEPT !.age = Some(a)], 30>> : a \in AgeCutAges}
    \cup {<<Without(CompleteRecord, "age"), 30>>}

\* Requests of the tier specification: the complete record with a probability
\* at 0.5 and on both sides of the cut points 0.6 and 0.8
TierProbs == {50, 59, 60, 79, 80}
TierWorkers == {1, 2}

\* Rows of an arbitrary store: every gender with every pairing of a risk label
\* and a probability on either side of 0.5
StoreGenders == {"Male", "Female", "Other"}
StoreRisks == {<<"Medium", 50>>, <<"High", 50>>, <<"High", 70>>, <<"Very High", 90>>}

StoreRow(id, gender, risk) ==
    [id |-> id, patient_id |-> "P1", gender |-> Some(gender), age |-> Some(40),
     hypertension |-> Some(0), heart_disease |-> Some(0),
     avg_glucose_level |-> Some(90), bmi |-> Some(220),
     smoking_status |-> Some("never smoked"),
     prediction |-> model_predict(risk[2]), stroke_probability |-> risk[2],
     no_stroke_probability |-> 100 - risk[2], risk_level |-> risk[1],
     confidence |-> Max(risk[2], 100 - risk[2]), request |-> 0]

\* The store of n rows with the given genders and risks
Store(n, genders, risks) == [i \in 1 .. n |-> StoreRow(i, genders[i], risks[i])]

\* Rows for the age queries: both sides of every cut point of the CASE
AgeGenders == {"Male", "Female"}
StoreAges == {29, 30, 49, 50, 64, 65}

AgeRow(id, gender, age) ==
    [StoreRow(id, gender, <<"Low", 10>>) EXCEPT !.age = Some(age)]

\* Rows for the BMI and glucose queries: a BMI and a glucose level, either of
\* which the schema lets be NULL, on both sides of every cut point
StoreBodies ==
    {<<None, None>>, <<None, Some(126)>>, <<Some(184), Some(99)>>,
     <<Some(185), Some(100)>>, <<Some(249), Some(125)>>, <<Some(250), Some(126)>>,
     <<Some(299), None>>, <<Some(300), Some(90)>>}

BodyRow(id, body) ==
    [StoreRow(id, "Male", <<"Low", 10>>) EXCEPT !.bmi = body[1],
                                               !.avg_glucose_level = body[2]]

-----------------------------------------------------------------------------
(* Specifications *)

InitRequests ==
    /\ lock = None
    /\ pc = [w \in Workers |-> "idle"]
    /\ data = [w \in Workers |-> <<>>]
    /\ result = [w \in Workers |-> <<>>]
    /\ conn = [w \in Workers |-> NoConn]
    /\ saved = [w \in Workers |-> <<>>]
    /\ response = [w \in Workers |-> <<>>]
    /\ saveCalls = [w \in Workers |-> 0]
    /\ rolledBack = [w \in Workers |-> "nothing"]
    /\ dpc = "idle"
    /\ dash = <<>>
    /\ dresponse = <<>>

\* The process once app.run serves, the model loaded from model.pkl
InitServing ==
    /\ boot = "serving"
    /\ model = Some("loaded")
    /\ artifact = "present"

\* init_database() on a fresh file, lines 28-75
Init ==
    /\ predictions = <<>>
    /\ risk_factors = <<>>
    /\ sqlite_sequence = 0
    /\ InitRequests
    /\ InitServing

NextPredict(w) ==
    \/ pc[w] = "idle" /\ \E r \in Requests : Predict(w, r[1], r[2])
    \/ pc[w] = "idle" /\ \E r \in Requests : PredictError(w, r[1])
    \/ InsertPrediction(w)
    \/ InsertFactor(w)
    \/ Commit(w)
    \/ SaveError(w)

NextDashboard ==
    \/ DashTotal
    \/ DashGenderDist
    \/ DashRiskDist
    \/ DashHighRisk
    \/ DashAgeDist
    \/ DashGenderAge
    \/ DashGenderRisk
    \/ DashBmiStats
    \/ DashGlucoseStats
    \/ DashRiskFactors
    \/ DashRecent
    \/ DashRespond
    \/ DashError

Next == (\E w \in Workers : NextPredict(w)) \/ NextDashboard

\* The service: concurrent /predict requests and a /dashboard-data request
Spec == Init /\ [][Next]_vars

\* One /predict request over every analyzer input, the store being unavailable
NextAnalyzer ==
    \/ pc[1] = "idle" /\ \E d \in AnalyzerRecords, p \in AnalyzerProbs : Predict(1, d, p)
    \/ SaveError(1)

SpecAnalyzer == Init /\ [][NextAnalyzer]_vars

\* /predict requests with fields left out or null
NextValidation(w) ==
    \/ pc[w] = "idle" /\ \E r \in ValidationRequests : Predict(w, r[1], r[2])
    \/ pc[w] = "idle" /\ \E r \in ValidationRequests : PredictError(w, r[1])
    \/ pc[w] = "idle" /\ \E r \in ValidationRequests : PredictTypeError(w, r[1])
    \/ InsertPrediction(w)
    \/ InsertFactor(w)
    \/ Commit(w)
    \/ SaveError(w)

SpecValidation == Init /\ [][\E w \in Workers : NextValidation(w)]_vars

\* Two /predict requests over the probabilities around the High tier, their
\* saves, and a /dashboard-data request
NextTier ==
    \/ \E w \in TierWorkers :
          \/ pc[w] = "idle" /\ \E p \in TierProbs : Predict(w, CompleteRecord, p)
          \/ InsertPrediction(w)
          \/ InsertFactor(w)
          \/ Commit(w)
          \/ SaveError(w)
    \/ NextDashboard

SpecTier == Init /\ [][NextTier]_vars

\* Concurrent /predict requests with ages around 65 and a /dashboard-data request
NextAge ==
    \/ \E w \in TierWorkers :
          \/ pc[w] = "idle" /\ \E r \in AgeRequests : Predict(w, r[1], r[2])
          \/ InsertPrediction(w)
          \/ InsertFactor(w)
          \/ Commit(w)
          \/ SaveError(w)
    \/ NextDashboard

SpecAge == Init /\ [][NextAge]_vars

\* The process from its start, model.pkl being there or not, and the /predict
\* requests it serves
InitStartup ==
    /\ predictions = <<>>
    /\ risk_factors = <<>>
    /\ sqlite_sequence = 0
    /\ InitRequests
    /\ boot = "import"
    /\ model = None
    /\ artifact \in {"absent", "present"}

NextStartup ==
    \/ LoadModel
    \/ LoadFails
    \/ Fit
    \/ Dump
    \/ AssignModel
    \/ CreateModelFails
    \/ AppRun
    \/ \E w \in Workers : NextPredict(w)

SpecStartup == InitStartup /\ [][NextStartup]_vars

\* /dashboard-data over an arbitrary store
InitDashboard ==
    /\ \E n \in 0 .. MaxStoreRows :
          \E genders \in [1 .. n -> StoreGenders], risks \in [1 .. n -> StoreRisks] :
              predictions = Store(n, genders, risks)
    /\ risk_factors = <<>>
    /\ sqlite_sequence = Len(predictions)
    /\ InitRequests
    /\ InitServing

SpecDashboard == InitDashboard /\ [][NextDashboard]_vars

\* /dashboard-data over the stores of rows of every gender and age
InitDashboardAge ==
    /\ \E n \in 0 .. MaxStoreRows :
          \E genders \in [1 .. n -> AgeGenders], ages \in [1 .. n -> StoreAges] :
              predictions = [i \in 1 .. n |-> AgeRow(i, genders[i], ages[i])]
    /\ risk_factors = <<>>
    /\ sqlite_sequence = Len(predictions)
    /\ InitRequests
    /\ InitServing

SpecDashboardAge == InitDashboardAge /\ [][NextDashboard]_vars

\* /dashboard-data over the stores of rows of every BMI and glucose level
InitDashboardBody ==
    /\ \E n \in 0 .. MaxStoreRows :
          \E bodies \in [1 .. n -> StoreBodies] :
              predictions = [i \in 1 .. n |-> BodyRow(i, bodies[i])]
    /\ risk_factors = <<>>
    /\ sqlite_sequence = Len(predictions)
    /\ InitRequests
    /\ InitServing

SpecDashboardBody == InitDashboardBody /\ [][NextDashboard]_vars

-----------------------------------------------------------------------------
(* Properties of the record store and of /predict *)

SaveFailed(w) == saved[w] = <<None, None>>

\* The committed rows a request wrote
PredictionsOf(w) == SelectSeq(predictions, LAMBDA r : r.request = w)
FactorsOf(w) == SelectSeq(risk_factors, LAMBDA r : r.request = w)

\* C1: when save_prediction_to_db fails after its predictions row was inserted,
\* before or during the insertion of its risk_factors rows, the committed store
\* holds no predictions row and no risk_factors row of that attempt.
C1_AppendAllOrNothing ==
    \A w \in Workers :
        (SaveFailed(w) /\ rolledBack[w] # "nothing")
            => (PredictionsOf(w) = <<>> /\ FactorsOf(w) = <<>>)

\* A save failed between two risk_factors inserts while another request's rows
\* are committed
C1_Witness ==
    \E w \in Workers :
        /\ SaveFailed(w)
        /\ rolledBack[w] = "prediction and factors"
        /\ PredictionsOf(w) = <<>>
        /\ predictions # <<>>

\* The risk_factors rows the append of request w writes for predictions row id
ExpectedFactors(w, id) ==
    [k \in 1 .. Len(result[w].risk_factors) |->
        [prediction_id |-> id,
         factor_name |-> result[w].risk_factors[k].name,
         factor_value |-> result[w].risk_factors[k].value,
         contribution |-> result[w].risk_factors[k].contribution,
         request |-> w]]

\* C2: in every state a reader can see, a predictions row is visible iff all
\* risk_factors rows of the same append are visible: each request has either no
\* committed row at all, or its one predictions row with all six factor rows.
C2_NoPartialPredictionVisible ==
    \A w \in Workers :
        \/ PredictionsOf(w) = <<>> /\ FactorsOf(w) = <<>>
        \/ /\ Len(PredictionsOf(w)) = 1
           /\ FactorsOf(w) = ExpectedFactors(w, PredictionsOf(w)[1].id)
           /\ Len(FactorsOf(w)) = 6

\* The dashboard is between two of its queries while one append is committed
\* and another has inserted its predictions row and some of its factor rows
C2_Witness ==
    /\ dpc \in {"gender_dist", "risk_dist", "high_risk", "gender_risk"}
    /\ predictions # <<>>
    /\ \E w \in Workers :
          /\ pc[w] = "factors"
          /\ Len(conn[w].risk_factors) \in 1 .. 5
          /\ PredictionsOf(w) = <<>>

\* C3: a /predict response after a failed save is marked saved_to_database =
\* false and carries no prediction_id.
C3_FailedSaveMarkedFalse ==
    \A w \in Workers :
        (pc[w] = "done" /\ SaveFailed(w))
            => /\ "saved_to_database" \in DOMAIN response[w].body
               /\ response[w].body.saved_to_database = FALSE
               /\ "prediction_id" \notin DOMAIN response[w].body

ResultKeys ==
    {"prediction", "probability", "risk_level", "confidence", "risk_factors",
     "interpretation", "recommendations"}

\* C4: when the model produced a prediction and the append failed, /predict
\* answers with status 200 and the complete prediction result, and
\* save_prediction_to_db was called exactly once.
C4_PredictionSurvivesFailedSave ==
    \A w \in Workers :
        (pc[w] = "done" /\ SaveFailed(w))
            => /\ response[w].status = 200
               /\ ResultKeys \subseteq DOMAIN response[w].body
               /\ \A k \in ResultKeys : response[w].body[k] = result[w][k]
               /\ response[w].body.risk_level
                    = risk_level(response[w].body.probability.stroke)
               /\ Len(response[w].body.risk_factors) = 6
               /\ saveCalls[w] = 1

\* A request answered after its save failed with the transaction open
C4_Witness ==
    \E w \in Workers :
        /\ pc[w] = "done"
        /\ SaveFailed(w)
        /\ rolledBack[w] = "prediction"
        /\ response[w].status = 200

-----------------------------------------------------------------------------
(* Properties of the risk factor analyzer, checked under SpecAnalyzer *)

Computed(w) == pc[w] \in {"save", "factors", "done"} /\ result[w] # <<>>

\* C5: the risk_level of /predict is Very Low iff p < 0.2, Low iff
\* 0.2 <= p < 0.4, Medium iff 0.4 <= p < 0.6, High iff 0.6 <= p < 0.8 and
\* Very High iff p >= 0.8: exactly one tier for every p in [0, 1].
C5_RiskLevelPartition ==
    \A w \in Workers :
        Computed(w) =>
            LET p == result[w].probability.stroke
                tier == result[w].risk_level
            IN  /\ tier \in {"Very Low", "Low", "Medium", "High", "Very High"}
                /\ (tier = "Very Low") <=> (p < 20)
                /\ (tier = "Low") <=> (20 <= p /\ p < 40)
                /\ (tier = "Medium") <=> (40 <= p /\ p < 60)
                /\ (tier = "High") <=> (60 <= p /\ p < 80)
                /\ (tier = "Very High") <=> (p >= 80)

\* A request answered with probability exactly 0.2, the lowest Low
C5_Witness ==
    \E w \in Workers :
        /\ pc[w] = "done"
        /\ response[w].status = 200
        /\ response[w].body.probability.stroke = 20
        /\ response[w].body.risk_level = "Low"

\* C6: the Age factor is High iff age > 65, Medium iff 50 < age <= 65 and Low
\* otherwise; its contribution is 0 for age <= 50, (age - 50) * 0.02 above 50,
\* and never smaller than the contribution of a lower age.
C6_AgeFactor ==
    \A w \in Workers :
        Computed(w) =>
            LET a == data[w].age[1]
                f == result[w].risk_factors[1]
            IN  /\ f.name = "Age" /\ f.value = a
                /\ (f.risk_category = "High") <=> (a > 65)
                /\ (f.risk_category = "Medium") <=> (50 < a /\ a <= 65)
                /\ (f.risk_category = "Low") <=> (a <= 50)
                /\ (a <= 50) => (f.contribution = 0)
                /\ (a > 50) => (f.contribution = (a - 50) * 2)
                /\ \A b \in Ages : (b <= a) => (age_risk(b) <= f.contribution)

\* A request of age exactly 65: Medium, contribution 0.30
C6_Witness ==
    \E w \in Workers :
        /\ pc[w] = "done"
        /\ data[w].age = Some(65)
        /\ response[w].body.risk_factors[1].risk_category = "Medium"
        /\ response[w].body.risk_factors[1].contribution = 30

Step(value, high, medium, highResult, mediumResult, lowResult) ==
    IF value > high THEN highResult
    ELSE IF value > medium THEN mediumResult ELSE lowResult

\* C7: calculate_risk_factors returns the six factors Age, BMI, Glucose Level,
\* Hypertension, Heart Disease, Smoking Status in this order; BMI is 0.15/High
\* above 30, 0.08/Medium in (25, 30], else 0/Normal; Glucose is 0.20/High above
\* 140, 0.10/Medium in (100, 140], else 0/Normal; Hypertension is 0.25/High if
\* present else 0/Low; Heart Disease is 0.30/High if present else 0/Low; Smoking
\* is 0.15/High for smokes, 0.10/Medium for formerly smoked, else 0/Low.
C7_SixFactors ==
    \A w \in Workers :
        Computed(w) =>
            LET d == data[w]
                f == result[w].risk_factors
            IN  /\ [k \in 1 .. Len(f) |-> f[k].name]
                     = <<"Age", "BMI", "Glucose Level", "Hypertension",
                         "Heart Disease", "Smoking Status">>
                /\ f[2].value = d.bmi[1]
                /\ f[2].contribution = Step(d.bmi[1], 300, 250, 15, 8, 0)
                /\ f[2].risk_category = Step(d.bmi[1], 300, 250, "High", "Medium", "Normal")
                /\ f[3].value = d.avg_glucose_level[1]
                /\ f[3].contribution = Step(d.avg_glucose_level[1], 140, 100, 20, 10, 0)
                /\ f[3].risk_category
                     = Step(d.avg_glucose_level[1], 140, 100, "High", "Medium", "Normal")
                /\ f[4].value = d.hypertension
                /\ f[4].contribution = (IF d.hypertension = 1 THEN 25 ELSE 0)
                /\ f[4].risk_category = (IF d.hypertension = 1 THEN "High" ELSE "Low")
                /\ f[5].value = d.heart_disease
                /\ f[5].contribution = (IF d.heart_disease = 1 THEN 30 ELSE 0)
                /\ f[5].risk_category = (IF d.heart_disease = 1 THEN "High" ELSE "Low")
                /\ f[6].value = d.smoking_status
                /\ f[6].contribution
                     = (CASE d.smoking_status = "smokes" -> 15
                          [] d.smoking_status = "formerly smoked" -> 10
                          [] OTHER -> 0)
                /\ f[6].risk_category
                     = (CASE d.smoking_status = "smokes" -> "High"
                          [] d.smoking_status = "formerly smoked" -> "Medium"
                          [] OTHER -> "Low")

\* The scenario age 70, bmi 32, glucose 150, hypertension, no heart disease,
\* smokes: 0.40/High, 0.15/High, 0.20/High, 0.25/High, 0/Low, 0.15/High
C7_Witness ==
    \E w \in Workers :
        /\ pc[w] = "done"
        /\ data[w].age = Some(70) /\ data[w].bmi = Some(320)
        /\ data[w].avg_glucose_level = Some(150)
        /\ data[w].hypertension = 1 /\ data[w].heart_disease = 0
        /\ data[w].smoking_status = "smokes"
        /\ [k \in 1 .. 6 |-> response[w].body.risk_factors[k].contribution]
             = <<40, 15, 20, 25, 0, 15>>
        /\ [k \in 1 .. 6 |-> response[w].body.risk_factors[k].risk_category]
             = <<"High", "High", "High", "High", "Low", "High">>

\* A rule of get_recommendations that the factor f satisfies
RuleFires(f) ==
    /\ f.contribution > 10
    /\ \/ f.name = "BMI" /\ f.value > 250
       \/ f.name = "Glucose Level" /\ f.value > 100
       \/ f.name = "Smoking Status" /\ f.value \in {"smokes", "formerly smoked"}

NoRuleFires(w) ==
    /\ ~(result[w].probability.stroke > 40)
    /\ \A k \in 1 .. Len(result[w].risk_factors) : ~RuleFires(result[w].risk_factors[k])

\* C8: get_recommendations returns between 1 and 5 recommendations; when no
\* rule fires they are exactly the two fallback recommendations.
C8_RecommendationsBounded ==
    \A w \in Workers :
        Computed(w) =>
            /\ Len(result[w].recommendations) >= 1
            /\ Len(result[w].recommendations) <= 5
            /\ NoRuleFires(w) =>
                    result[w].recommendations
                        = <<"Maintain current healthy lifestyle",
                            "Regular exercise and balanced diet">>

\* A request on which no rule fires although two factors contribute (formerly
\* smoked, glucose in (100, 140]), answered with the fallback pair
C8_Witness ==
    \E w \in Workers :
        /\ pc[w] = "done"
        /\ NoRuleFires(w)
        /\ data[w].smoking_status = "formerly smoked"
        /\ data[w].avg_glucose_level = Some(140)
        /\ Len(response[w].body.recommendations) = 2

-----------------------------------------------------------------------------
(* Properties of /dashboard-data, checked under SpecDashboard *)

Rows == 1 .. Len(predictions)
HighLabels == {"High", "Very High"}

\* C9: high_risk_patients is the number of predictions rows with risk_level
\* High or Very High and stroke_probability > 0.5; it never exceeds the number
\* of rows with such a risk_level.
C9_HighRiskPatients ==
    (dpc = "done" /\ dresponse.status = 200) =>
        /\ dresponse.body.high_risk_patients
             = Cardinality({i \in Rows : /\ predictions[i].risk_level \in HighLabels
                                         /\ predictions[i].stroke_probability > 50})
        /\ dresponse.body.high_risk_patients
             <= Cardinality({i \in Rows : predictions[i].risk_level \in HighLabels})

\* A response over a store with a row labelled High of probability 0.5, which
\* is not counted, and a row that is
C9_Witness ==
    /\ dpc = "done" /\ dresponse.status = 200
    /\ \E i \in Rows : /\ predictions[i].risk_level = "High"
                        /\ predictions[i].stroke_probability = 50
    /\ dresponse.body.high_risk_patients >= 1
    /\ dresponse.body.high_risk_patients
         < Cardinality({i \in Rows : predictions[i].risk_level \in HighLabels})

GenderRows(g) == {i \in Rows : predictions[i].gender = Some(g)}
GenderHighRows(g) == {i \in GenderRows(g) : predictions[i].risk_level \in HighLabels}

GenderCounts(g) ==
    /\ dresponse.body.gender_risk_stats[g].total = Cardinality(GenderRows(g))
    /\ dresponse.body.gender_risk_stats[g].high_risk = Cardinality(GenderHighRows(g))

\* C10 as stated: for Male and Female, total counts the rows of the gender,
\* high_risk those of them labelled High or Very High whatever their
\* probability, and risk_percentage equals 100 * high_risk / total, is 0 when
\* total = 0 and lies in [0, 100].
C10_ExactPercentage ==
    (dpc = "done" /\ dresponse.status = 200) =>
        \A g \in {"Male", "Female"} :
            LET e == dresponse.body.gender_risk_stats[g]
            IN  /\ GenderCounts(g)
                /\ (e.total = 0) => (e.risk_percentage = 0)
                /\ (e.total > 0) => (e.risk_percentage * e.total = 10000 * e.high_risk)
                /\ 0 <= e.risk_percentage /\ e.risk_percentage <= 10000

\* C10 as amended: risk_percentage is 100 * high_risk / total rounded to two
\* decimals (the nearest hundredth of a percent), is 0 when total = 0 and lies
\* in [0, 100]; total and high_risk as stated.
C10_RoundedPercentage ==
    (dpc = "done" /\ dresponse.status = 200) =>
        \A g \in {"Male", "Female"} :
            LET e == dresponse.body.gender_risk_stats[g]
                diff == e.risk_percentage * e.total - 10000 * e.high_risk
            IN  /\ GenderCounts(g)
                /\ (e.total = 0) => (e.risk_percentage = 0)
                /\ (e.total > 0) => (2 * diff <= e.total /\ -2 * diff <= e.total)
                /\ 0 <= e.risk_percentage /\ e.risk_percentage <= 10000

\* A response over three Male rows, one of them labelled High with probability
\* 0.5, and no Female row: 33.33 for Male, 0 for Female
C10_Witness ==
    /\ dpc = "done" /\ dresponse.status = 200
    /\ dresponse.body.gender_risk_stats["Male"]
         = [total |-> 3, high_risk |-> 1, risk_percentage |-> 3333]
    /\ dresponse.body.gender_risk_stats["Female"]
         = [total |-> 0, high_risk |-> 0, risk_percentage |-> 0]
    /\ \E i \in Rows : /\ predictions[i].risk_level = "High"
                        /\ predictions[i].stroke_probability = 50
    /\ dresponse.body.high_risk_patients = 0

-----------------------------------------------------------------------------
(* Properties of the other aggregation queries *)

\* The response of the except branch of get_dashboard_data
DashFailed == dresponse.status # 200

\* C11: on an empty store /dashboard-data, unless a query itself fails,
\* answers with status 200 and no error key: total_predictions = 0,
\* high_risk_patients = 0, the risk_percentage of Male and of Female = 0, the
\* four prevalences of risk_factors = 0, every bmi_stats and glucose_stats
\* count = 0 and recent_predictions empty.
C11_EmptyStoreDashboard ==
    (predictions = <<>> /\ dpc = "done" /\ ~DashFailed) =>
        LET body == dresponse.body
        IN  /\ "error" \notin DOMAIN body
            /\ body.total_predictions = 0
            /\ body.high_risk_patients = 0
            /\ DOMAIN body.gender_risk_stats = {"Male", "Female"}
            /\ \A g \in DOMAIN body.gender_risk_stats :
                    body.gender_risk_stats[g].risk_percentage = 0
            /\ DOMAIN body.risk_factors
                  = {"Hypertension", "Heart Disease", "Smoking History", "Age > 65"}
            /\ \A k \in DOMAIN body.risk_factors : body.risk_factors[k] = 0
            /\ DOMAIN body.bmi_stats = {"underweight", "normal", "overweight", "obese"}
            /\ \A k \in DOMAIN body.bmi_stats : body.bmi_stats[k] = 0
            /\ DOMAIN body.glucose_stats = {"normal", "prediabetes", "diabetes"}
            /\ \A k \in DOMAIN body.glucose_stats : body.glucose_stats[k] = 0
            /\ body.recent_predictions = <<>>

\* The handler has run through every query of an empty store and returned
C11_Witness ==
    /\ predictions = <<>> /\ dpc = "done" /\ dresponse.status = 200
    /\ dresponse.body.total_predictions = 0
    /\ dresponse.body.bmi_stats.obese = 0
    /\ dresponse.body.risk_factors["Age > 65"] = 0
    /\ dresponse.body.age_distribution = <<>>

\* The buckets of the age distribution, in their defined order
AgeBuckets == <<"Under 30", "30-49", "50-64", "65+">>

InAgeBucket(group, age) ==
    CASE group = "Under 30" -> age < 30
      [] group = "30-49" -> 30 <= age /\ age < 50
      [] group = "50-64" -> 50 <= age /\ age < 65
      [] group = "65+" -> age >= 65

RECURSIVE SumCounts(_)
SumCounts(list) == IF list = <<>> THEN 0 ELSE Head(list).count + SumCounts(Tail(list))

\* list is the age distribution of the rows `of`
AgeListOk(list, of) ==
    /\ \A k \in 1 .. Len(list) :
          /\ \E b \in 1 .. 4 : list[k].age_group = AgeBuckets[b]
          /\ list[k].count
               = Cardinality({i \in of : InAgeBucket(list[k].age_group,
                                                     predictions[i].age[1])})
    /\ \A i \in of :
          Cardinality({k \in 1 .. Len(list) :
                          InAgeBucket(list[k].age_group, predictions[i].age[1])}) = 1
    /\ SumCounts(list) = Cardinality(of)
    /\ \A k, l \in 1 .. Len(list) :
          k < l => \E b, c \in 1 .. 4 : /\ b < c
                                        /\ list[k].age_group = AgeBuckets[b]
                                        /\ list[l].age_group = AgeBuckets[c]

\* C12: age_distribution counts every row in exactly one bucket, Under 30 iff
\* age < 30, 30-49 iff 30 <= age < 50, 50-64 iff 50 <= age < 65, 65+ iff
\* age >= 65; the counts sum to the number of rows; the buckets present are
\* listed in the order Under 30, 30-49, 50-64, 65+; and
\* age_distribution_by_gender holds the same for the rows of each gender.
C12_AgeDistribution ==
    (dpc = "done" /\ ~DashFailed) =>
        LET body == dresponse.body
        IN  /\ AgeListOk(body.age_distribution, Rows)
            /\ DOMAIN body.age_distribution_by_gender
                  = {predictions[i].gender : i \in Rows}
            /\ \A g \in DOMAIN body.age_distribution_by_gender :
                    AgeListOk(body.age_distribution_by_gender[g],
                              {i \in Rows : predictions[i].gender = g})

\* Rows aged 29, 30 and 65 of both genders: Under 30 listed before 30-49,
\* against the lexical order, age 30 in 30-49 and age 65 in 65+
C12_Witness ==
    /\ dpc = "done" /\ dresponse.status = 200
    /\ {predictions[i].age : i \in Rows} = {Some(29), Some(30), Some(65)}
    /\ dresponse.body.age_distribution
         = <<[age_group |-> "Under 30", count |-> 1],
             [age_group |-> "30-49", count |-> 1],
             [age_group |-> "65+", count |-> 1]>>
    /\ DOMAIN dresponse.body.age_distribution_by_gender = {Some("Male"), Some("Female")}

BmiRows == {i \in Rows : predictions[i].bmi # None}
GlucoseRows == {i \in Rows : predictions[i].avg_glucose_level # None}
Bmi(i) == predictions[i].bmi[1]
Glucose(i) == predictions[i].avg_glucose_level[1]

\* C13: bmi_stats counts the rows with a bmi below 18.5 as underweight, from
\* 18.5 and below 25 as normal, from 25 and below 30 as overweight, from 30 as
\* obese, the four counts summing to the number of rows whose bmi is not
\* NULL; glucose_stats counts those with avg_glucose_level below 100 as
\* normal, from 100 and below 126 as prediabetes, from 126 as diabetes, the
\* three counts summing to the number of rows whose level is not NULL.
C13_BmiGlucoseStats ==
    (dpc = "done" /\ ~DashFailed) =>
        LET bmi == dresponse.body.bmi_stats
            glucose == dresponse.body.glucose_stats
        IN  /\ bmi.underweight = Cardinality({i \in BmiRows : Bmi(i) < 185})
            /\ bmi.normal
                 = Cardinality({i \in BmiRows : 185 <= Bmi(i) /\ Bmi(i) < 250})
            /\ bmi.overweight
                 = Cardinality({i \in BmiRows : 250 <= Bmi(i) /\ Bmi(i) < 300})
            /\ bmi.obese = Cardinality({i \in BmiRows : 300 <= Bmi(i)})
            /\ bmi.underweight + bmi.normal + bmi.overweight + bmi.obese
                 = Cardinality(BmiRows)
            /\ glucose.normal = Cardinality({i \in GlucoseRows : Glucose(i) < 100})
            /\ glucose.prediabetes
                 = Cardinality({i \in GlucoseRows : 100 <= Glucose(i) /\ Glucose(i) < 126})
            /\ glucose.diabetes = Cardinality({i \in GlucoseRows : 126 <= Glucose(i)})
            /\ glucose.normal + glucose.prediabetes + glucose.diabetes
                 = Cardinality(GlucoseRows)

\* A store with a row whose bmi and glucose are NULL, a row at bmi 25 and
\* glucose 126 and a row at bmi 18.5 and glucose 100: two rows counted
C13_Witness ==
    /\ dpc = "done" /\ dresponse.status = 200
    /\ {<<predictions[i].bmi, predictions[i].avg_glucose_level>> : i \in Rows}
         = {<<None, None>>, <<Some(250), Some(126)>>, <<Some(185), Some(100)>>}
    /\ dresponse.body.bmi_stats
         = [underweight |-> 0, normal |-> 1, overweight |-> 1, obese |-> 0]
    /\ dresponse.body.glucose_stats = [normal |-> 0, prediabetes |-> 1, diabetes |-> 1]

-----------------------------------------------------------------------------
(* Properties of the store under /predict *)

Ids(rows) == {rows[i].id : i \in 1 .. Len(rows)}

\* The request w is answered in this step with the ids of a saved prediction
AnsweredSaved(w) ==
    /\ pc[w] # "done" /\ pc'[w] = "done"
    /\ response'[w].status = 200
    /\ "prediction_id" \in DOMAIN response'[w].body

\* C14: the store is append-only under /predict.  Every step leaves the rows
\* of predictions and of risk_factors as they are; a /predict answered with a
\* saved prediction adds exactly one predictions row, whose id no stored row
\* has, whether or not a stored row has its patient_id; no other step adds
\* one.
C14_AppendOnly ==
    [][/\ SubSeq(predictions', 1, Len(predictions)) = predictions
       /\ SubSeq(risk_factors', 1, Len(risk_factors)) = risk_factors
       /\ Len(predictions') >= Len(predictions)
       /\ Len(risk_factors') >= Len(risk_factors)
       /\ \A w \in Workers :
             AnsweredSaved(w) =>
                 /\ Len(predictions') = Len(predictions) + 1
                 /\ predictions'[Len(predictions')].id \notin Ids(predictions)
                 /\ predictions'[Len(predictions')].request = w
       /\ (\A w \in Workers : ~AnsweredSaved(w)) => predictions' = predictions]_vars

\* Two saved predictions for the same patient_id: two rows, two ids
C14_Witness ==
    /\ Len(predictions) = 2
    /\ predictions[1].patient_id = "P1" /\ predictions[2].patient_id = "P1"
    /\ predictions[1].id # predictions[2].id
    /\ predictions[1].request # predictions[2].request
    /\ \A w \in Workers : pc[w] = "done" /\ "prediction_id" \in DOMAIN response[w].body

\* save_prediction_to_db has returned ids to the request w
Appended(w) == pc[w] = "done" /\ saved[w] # <<>> /\ saved[w] # <<None, None>>

\* C19: the id a successful append returns is the id of the one predictions
\* row that call inserted; the patient_id returned is stored in that row and is
\* the caller's when the request has one, else the generated PATIENT_<time>;
\* two successful appends return different ids; and the risk_factors rows a
\* call wrote, one per factor, carry its id.
C19_ReturnedIds ==
    \A w \in Workers :
        Appended(w) =>
            LET prediction_id == saved[w][1][1]
                patient_id == saved[w][2][1]
                rows == {i \in 1 .. Len(predictions) :
                            predictions[i].id = prediction_id}
            IN  /\ Cardinality(rows) = 1
                /\ \A i \in rows : /\ predictions[i].request = w
                                    /\ predictions[i].patient_id = patient_id
                /\ Len(PredictionsOf(w)) = 1
                /\ PredictionsOf(w)[1].id = prediction_id
                /\ patient_id = IF "patient_id" \in DOMAIN data[w]
                                THEN data[w].patient_id ELSE "PATIENT_now"
                /\ response[w].body.prediction_id = prediction_id
                /\ response[w].body.patient_id = patient_id
                /\ \A v \in Workers \ {w} :
                        Appended(v) => saved[v][1][1] # prediction_id
                /\ Len(FactorsOf(w)) = Len(result[w].risk_factors)
                /\ \A k \in 1 .. Len(FactorsOf(w)) :
                        FactorsOf(w)[k].prediction_id = prediction_id

\* Two appends, one for the caller's P1 and one with a generated patient_id
C19_Witness ==
    /\ \A w \in Workers : Appended(w)
    /\ {saved[w][2][1] : w \in Workers} = {"P1", "PATIENT_now"}
    /\ Cardinality({saved[w][1][1] : w \in Workers}) = 2
    /\ Len(risk_factors) = 12

\* The tier of a probability
Tier(p) ==
    CASE p < 20 -> "Very Low"
      [] 20 <= p /\ p < 40 -> "Low"
      [] 40 <= p /\ p < 60 -> "Medium"
      [] 60 <= p /\ p < 80 -> "High"
      [] 80 <= p -> "Very High"

\* C20: in every store written by /predict only, the risk_level of each row
\* is the tier of its stroke_probability, so a row labelled High or Very High
\* has a probability of at least 0.6; and the high-risk count that
\* /dashboard-data reads is the number of rows labelled High or Very High at
\* that moment, the count it returns.
C20_HighRiskIsLabelCount ==
    /\ [](\A i \in Rows :
            /\ predictions[i].risk_level = Tier(predictions[i].stroke_probability)
            /\ predictions[i].risk_level \in HighLabels
                  => predictions[i].stroke_probability >= 60)
    /\ []((dpc = "done" /\ ~DashFailed)
            => dresponse.body.high_risk_patients = dash.high_risk)
    /\ [][(dpc = "high_risk" /\ dpc' = "age_dist") =>
              dash'.high_risk
                = Cardinality({i \in Rows : predictions[i].risk_level \in HighLabels})]_vars

\* A response counting one high-risk patient over a row of probability 0.59,
\* Medium, and a row of probability 0.6, High
C20_Witness ==
    /\ dpc = "done" /\ dresponse.status = 200
    /\ dresponse.body.high_risk_patients = 1
    /\ {predictions[i].stroke_probability : i \in Rows} = {59, 60}
    /\ {predictions[i].risk_level : i \in Rows} = {"Medium", "High"}

-----------------------------------------------------------------------------
(* Properties of the start of the process *)

\* C15: the model is loaded from model.pkl or, the load failing, trained and
\* model.pkl written, before the process serves: while it is not serving no
\* /predict request is taken up, once it may serve the model is there and so
\* is model.pkl, and every /predict request taken up finds the model.
C15_ModelReadyBeforeServing ==
    /\ boot \notin {"main", "serving"} => \A w \in Workers : pc[w] = "idle"
    /\ boot \in {"main", "serving"} => model # None /\ artifact = "present"
    /\ model = Some("trained") => artifact = "present"
    /\ \A w \in Workers : pc[w] # "idle" => model # None

\* model.pkl was absent, the model was trained, and a /predict request has
\* been answered with a prediction
C15_Witness ==
    /\ boot = "serving" /\ model = Some("trained")
    /\ \E w \in Workers : pc[w] = "done" /\ response[w].status = 200

-----------------------------------------------------------------------------
(* Properties of the handling of errors *)

\* A required field is absent or not a number
Malformed(d) ==
    \E key \in {"age", "avg_glucose_level"} : key \notin DOMAIN d \/ d[key] = None

BmiAbsent(d) == "bmi" \notin DOMAIN d \/ d.bmi = None

\* C16 as stated: a /predict request whose age or avg_glucose_level is absent
\* or not a number is answered with a status between 400 and 499 and an error
\* message, and the process keeps serving.
C16_MalformedAnswered4xx ==
    \A w \in Workers :
        (pc[w] = "done" /\ Malformed(data[w])) =>
            /\ response[w].status \in 400 .. 499
            /\ "error" \in DOMAIN response[w].body
            /\ boot = "serving"

\* C17 as stated: a /predict request whose bmi is null or missing, age and
\* avg_glucose_level being numbers, is answered with a prediction and not
\* with an error, unless the pipeline itself fails.
C17_AbsentBmiAccepted ==
    \A w \in Workers :
        (/\ pc[w] = "done"
         /\ BmiAbsent(data[w]) /\ ~Malformed(data[w])
         /\ response[w].body # [error |-> "exception"]) =>
            /\ response[w].status = 200
            /\ "prediction" \in DOMAIN response[w].body
            /\ "error" \notin DOMAIN response[w].body

\* A response of an except branch: a status that is not 2xx and a body that
\* is the one key error with a message
ErrorResponse(r) ==
    /\ r.status \notin 200 .. 299
    /\ DOMAIN r.body = {"error"}
    /\ r.body.error \in {"exception", TypeErrorMessage}

Success(r) == r.status = 200 /\ "error" \notin DOMAIN r.body

\* C18: an exception that leaves the body of /predict or of /dashboard-data
\* is answered with {error: message} and a status that is not 2xx, so every
\* request answered has either that or a success; the process goes on
\* serving, and a request that has not been taken up yet can still be.
C18_ErrorsCaught ==
    /\ boot = "serving"
    /\ \A w \in Workers :
          /\ pc[w] = "done" => (ErrorResponse(response[w]) \/ Success(response[w]))
          /\ pc[w] = "idle" => ENABLED Predict(w, CompleteRecord, 30)
    /\ dpc = "done" => (ErrorResponse(dresponse) \/ Success(dresponse))
    /\ dpc = "idle" => ENABLED DashTotal

\* A /predict request and the /dashboard-data request have failed, and
\* another /predict request has been answered with its saved prediction
C18_Witness ==
    /\ \E w \in Workers : pc[w] = "done" /\ response[w].status = 500
    /\ \E w \in Workers : /\ pc[w] = "done" /\ response[w].status = 200
                           /\ "prediction_id" \in DOMAIN response[w].body
    /\ dpc = "done" /\ dresponse.status = 500

\* The request w has been answered with {error: ...}
AnsweredError(w) == pc[w] = "done" /\ "error" \in DOMAIN response[w].body

\* C21: a /predict request answered with {error: ...} has added no
\* predictions row and no risk_factors row, and the step that answers it
\* leaves both tables as they are.
C21_ErrorLeavesStore ==
    /\ [](\A w \in Workers :
            AnsweredError(w) => /\ PredictionsOf(w) = <<>>
                                /\ FactorsOf(w) = <<>>)
    /\ [][\A w \in Workers :
            (pc[w] # "done" /\ pc'[w] = "done"
             /\ "error" \in DOMAIN response'[w].body)
                => UNCHANGED <<predictions, risk_factors>>]_vars

\* A request has been answered with the TypeError while the store holds the
\* row and the six factors of another request
C21_Witness ==
    /\ \E w \in Workers : /\ AnsweredError(w)
                           /\ response[w].body.error = TypeErrorMessage
    /\ Len(predictions) = 1 /\ Len(risk_factors) = 6

RECURSIVE SumValues(_)
\* The sum of the counts of a {key: count} object
SumValues(f) ==
    IF DOMAIN f = {} THEN 0
    ELSE LET k == CHOOSE x \in DOMAIN f : TRUE
         IN  f[k] + SumValues([x \in DOMAIN f \ {k} |-> f[x]])

\* C22: within one /dashboard-data success response the counts of
\* gender_distribution, of risk_distribution and of age_distribution each sum
\* to total_predictions and high_risk_patients <= total_predictions, also
\* when appends commit while the response is being computed.
C22_DashboardConsistent ==
    (dpc = "done" /\ ~DashFailed) =>
        LET body == dresponse.body
        IN  /\ SumValues(body.gender_distribution) = body.total_predictions
            /\ SumValues(body.risk_distribution) = body.total_predictions
            /\ SumCounts(body.age_distribution) = body.total_predictions
            /\ body.high_risk_patients <= body.total_predictions

\* The recommendation r is part of the answer computed for w
Recommends(w, r) ==
    \E k \in 1 .. Len(result[w].recommendations) : result[w].recommendations[k] = r

\* The list of get_recommendations before recommendations[:5]
Generated(w) ==
    or_fallback((IF result[w].probability.stroke > 40
                 THEN <<"Regular blood pressure monitoring", "Annual health checkups">>
                 ELSE <<>>)
                \o factor_recommendations(result[w].risk_factors))

\* C23: 'Weight management program' is recommended iff bmi > 30, 'Diabetes
\* screening and management' iff glucose > 140 and 'Smoking cessation
\* support' iff smoking_status = 'smokes'; at most five recommendations are
\* generated and the cap at five discards none.
C23_FactorRecommendations ==
    \A w \in Workers :
        Computed(w) =>
            /\ Recommends(w, "Weight management program") <=> data[w].bmi[1] > 300
            /\ Recommends(w, "Diabetes screening and management")
                    <=> data[w].avg_glucose_level[1] > 140
            /\ Recommends(w, "Smoking cessation support")
                    <=> data[w].smoking_status = "smokes"
            /\ Len(Generated(w)) <= 5
            /\ result[w].recommendations = Generated(w)

\* A smoker with bmi 30.1 and glucose 150 at a probability above 0.4 is
\* answered with the two general and the three factor recommendations
C23_Witness ==
    \E w \in Workers :
        /\ pc[w] = "done"
        /\ data[w].bmi = Some(301)
        /\ data[w].avg_glucose_level = Some(150)
        /\ data[w].smoking_status = "smokes"
        /\ response[w].body.recommendations
             = <<"Regular blood pressure monitoring", "Annual health checkups",
                 "Weight management program", "Diabetes screening and management",
                 "Smoking cessation support">>

-----------------------------------------------------------------------------
(* Age on the write path and on the read path, checked under SpecAge *)

\* The Age factor in the answer to the request that stored row i
AgeFactor(i) == response[predictions[i].request].body.risk_factors[1]

AgeHighRows == {i \in Rows : AgeFactor(i).risk_category = "High"}

\* The count of the 65+ bucket in an age distribution
Count65(list) ==
    SumCounts(SelectSeq(list, LAMBDA e : e.age_group = "65+"))

\* v, in tenths of a percent, is the share h of n rounded to one decimal
IsPct(v, h, n) ==
    IF n = 0 THEN v = 0
    ELSE /\ 2 * (v * n - 1000 * h) <= n
         /\ 2 * (1000 * h - v * n) <= n

\* C24: a stored record with an age other than 65 is in the 65+ bucket iff it
\* counts toward 'Age > 65' iff its Age factor is High; a record with age 65
\* is in the 65+ bucket, does not count toward 'Age > 65' and its Age factor
\* is Medium. (A record stored without an age falls into the ELSE of both
\* CASE expressions: in the 65+ bucket, not counted toward 'Age > 65'.)
C24_AgeClassifications ==
    /\ [](\A i \in Rows :
            /\ AgeFactor(i).name = "Age"
            /\ predictions[i].age = Some(65) => AgeFactor(i).risk_category = "Medium"
            /\ (predictions[i].age # None /\ predictions[i].age # Some(65))
                  => (AgeFactor(i).risk_category = "High" <=> predictions[i].age[1] > 65))
    /\ [][(dpc = "age_dist" /\ dpc' = "gender_age") =>
              Count65(dash'.age_dist)
                = Cardinality(AgeHighRows
                              \cup {i \in Rows : predictions[i].age = Some(65)}
                              \cup {i \in Rows : predictions[i].age = None})]_vars
    /\ [][(dpc = "risk_factors" /\ dpc' = "recent") =>
              IsPct(dash'.risk_factors["Age > 65"],
                    Cardinality(AgeHighRows), Len(predictions))]_vars
    /\ []((dpc = "done" /\ ~DashFailed)
            => /\ dresponse.body.age_distribution = dash.age_dist
               /\ dresponse.body.risk_factors = dash.risk_factors)

\* A response over a row aged 65, answered Medium, and a row aged 66, answered
\* High: both in the 65+ bucket, one of the two counted toward 'Age > 65'
C24_Witness ==
    /\ dpc = "done" /\ dresponse.status = 200
    /\ {predictions[i].age : i \in Rows} = {Some(65), Some(66)}
    /\ \A i \in Rows :
          AgeFactor(i).risk_category
            = IF predictions[i].age = Some(65) THEN "Medium" ELSE "High"
    /\ dresponse.body.age_distribution = <<[age_group |-> "65+", count |-> 2]>>
    /\ dresponse.body.risk_factors["Age > 65"] = 500

-----------------------------------------------------------------------------
(* The genders of gender_risk_stats *)

\* C25: in every /dashboard-data success response gender_risk_stats has
\* exactly the keys Male and Female; rows of any other gender are counted in
\* total_predictions and gender_distribution but in no gender_risk_stats
\* entry, so the two totals sum to at most total_predictions, with equality
\* iff every row counted is Male or Female.
C25_GenderRiskKeys ==
    (dpc = "done" /\ ~DashFailed) =>
        LET body == dresponse.body
            sum == body.gender_risk_stats["Male"].total
                   + body.gender_risk_stats["Female"].total
        IN  /\ DOMAIN body.gender_risk_stats = {"Male", "Female"}
            /\ sum <= body.total_predictions
            /\ (sum = body.total_predictions)
                  <=> (DOMAIN body.gender_distribution
                          \subseteq {Some("Male"), Some("Female")})

====
